---- MODULE Spec2Model ----
(***************************************************************************)
(* The ring-settlement circuit of src/circuit/Circuit.h as a state machine. *)
(*                                                                         *)
(* The state is the protoboard: the constraints that                       *)
(* CircuitGadget::generate_r1cs_constraints has added, the gadgets it has   *)
(* built (with the wires each one reads and writes), and the value `val`   *)
(* of every wire.  A wire is named <<j, name>>: j = 0 for the wires of the  *)
(* circuit top, j >= 1 for the wires of ring j (ringSettlements[j-1]).      *)
(*                                                                         *)
(* Field elements that take part in arithmetic are integers modulo FieldP.  *)
(* The outputs of the LongsightL Merkle gadgets, of EdDSA and of SHA-256    *)
(* come from libraries outside src/; they are modelled collision free: a    *)
(* Merkle root is the content of the tree it commits to, a signature is     *)
(* the (key, message) pair it signs, and the hasher's digest is tied to the *)
(* preimage it was computed from.  Bit i of such an opaque element x is the *)
(* opaque bit <<"bit", i, x>>.                                              *)
(*                                                                         *)
(* The bit widths are scaled down from the widths of the source (96-bit     *)
(* amounts become AmountBits bits, and so on); every relation between the   *)
(* widths that the circuit relies on is kept: a product of two amounts is   *)
(* below FieldP, the comparison width is above the amount width, and        *)
(* 2^(CmpBits+1) is below FieldP.                                           *)
(***************************************************************************)
EXTENDS Integers, Sequences, FiniteSets, TLC

VARIABLES pc, numRings, ringSettlements, publicDataBits, constraints, val, input

vars == <<pc, numRings, ringSettlements, publicDataBits, constraints, val, input>>

(***************************************************************************)
(* Widths and bounds.                                                      *)
(***************************************************************************)
\* width of dexID (16 in the source)
DexBits == 1
\* width of orderID (4 in the source)
OrderIdBits == 1
\* width of accountS, accountB, accountF: the depth of the accounts tree (24)
AccountBits == 3
\* width of the amounts, the fills and the sub-add outputs (96)
AmountBits == 5
\* width of the four declared roots (256)
RootBits == 2
\* width of publicDataHash and of the SHA-256 digest (256)
DigestBits == 3
\* the largest numRings generate_r1cs_constraints is called with
MaxRings == 2

\* width of the comparison in LeqGadget (128): above the amount width
CmpBits == AmountBits + 1
\* the field modulus (a prime): above any product of two amounts and above 2^(CmpBits+1)
FieldP == 2 ^ (2 * AmountBits) + 15
\* depth of the trading-history tree: its address is orderID.bits ++ accountS.bits
TREE_DEPTH_FILLED == OrderIdBits + AccountBits
\* depth of the accounts tree: its address is an account's bits
TREE_DEPTH_ACCOUNTS == AccountBits

(***************************************************************************)
(* Bits and packing (libsnark's dual_variable_gadget).                     *)
(***************************************************************************)
RECURSIVE SumBits(_, _)
SumBits(bits, i) ==
    IF i > Len(bits) THEN 0 ELSE bits[i] * 2 ^ (i - 1) + SumBits(bits, i + 1)

\* bits.fill_with_bits_of_field_element: the n low bits, least significant first
fill_with_bits_of_field_element(value, n) ==
    [i \in 1..n |-> (value \div 2 ^ (i - 1)) % 2]

\* generate_r1cs_witness_from_bits: packed = sum of bits[i] * 2^i in the field
PackBits(bits) == SumBits(bits, 1) % FieldP

\* the bits of an opaque field element (a root): bit i of x, kept symbolic
OpaqueBits(x, n) == [i \in 1..n |-> <<"bit", i, x>>]

\* the value of an address given as bits (never reduced: an address is an index)
AddressOf(bits) == SumBits(bits, 1)

Wire(j, name) == <<j, name>>

\* dual_variable_gadget<FieldT>(pb, width, name): a packed wire and its bits
DualVariable(j, name, width) ==
    [bits |-> Wire(j, name \o ".bits"), packed |-> Wire(j, name \o ".packed"),
     width |-> width, opaque |-> FALSE]

\* a 256-bit dual variable that holds a Merkle root
RootVariable(j, name) ==
    [bits |-> Wire(j, name \o ".bits"), packed |-> Wire(j, name \o ".packed"),
     width |-> RootBits, opaque |-> TRUE]

\* pb.val(w) = x
Assign(v, w, x) == (w :> x) @@ v

\* bits.fill_with_bits_of_field_element(pb, value); generate_r1cs_witness_from_bits():
\* the wires a witness step assigns, as a map that is laid over the assignment
DualWitness(d, value) ==
    LET bits == IF d.opaque THEN OpaqueBits(value, d.width)
                ELSE fill_with_bits_of_field_element(value, d.width)
    IN  (d.bits :> bits) @@ (d.packed :> IF d.opaque THEN value ELSE PackBits(bits))

\* dual_variable_gadget::generate_r1cs_constraints(true): every bit is boolean
\* and the bits pack to the packed wire
DualConstraint(v, d) ==
    IF d.opaque
    THEN v[d.bits] = OpaqueBits(v[d.packed], d.width)
    ELSE /\ \A i \in 1..d.width : v[d.bits][i] \in {0, 1}
         /\ PackBits(v[d.bits]) = v[d.packed]

(***************************************************************************)
(* flattenReverse, lines 26-45: each array reversed, the arrays in order.  *)
(***************************************************************************)
Reverse(s) == [i \in 1..Len(s) |-> s[Len(s) + 1 - i]]

RECURSIVE flattenReverse(_)
flattenReverse(in_scalars) ==
    IF in_scalars = <<>> THEN <<>>
    ELSE Reverse(Head(in_scalars)) \o flattenReverse(Tail(in_scalars))

\* ethsnarks flatten: the arrays in order, each in its own order
RECURSIVE flatten(_)
flatten(in_scalars) ==
    IF in_scalars = <<>> THEN <<>>
    ELSE Head(in_scalars) \o flatten(Tail(in_scalars))

\* the values of a list of bit arrays given by their wires
ValuesOf(v, wires) == [i \in 1..Len(wires) |-> v[wires[i]]]

(***************************************************************************)
(* LeqGadget, lines 47-84: libsnark's comparison_gadget over CmpBits bits   *)
(* with the result leq forced to 1.  The comparison packs                  *)
(* alpha = 2^n + B - A into n+1 bits; leq is bit n, lt = leq * (some low    *)
(* bit is set).                                                            *)
(***************************************************************************)
LeqGadget(j, A, B, prefix) ==
    [A |-> A, B |-> B, lt |-> Wire(j, prefix \o ".lt"), leq |-> Wire(j, prefix \o ".leq")]

ComparisonAlpha(v, g) == (2 ^ CmpBits + v[g.B] - v[g.A]) % FieldP

Leq_generate_r1cs_witness(v, g) ==
    LET alpha == fill_with_bits_of_field_element(ComparisonAlpha(v, g), CmpBits + 1)
        leq   == alpha[CmpBits + 1]
        not_all_zeros == IF \E i \in 1..CmpBits : alpha[i] = 1 THEN 1 ELSE 0
    IN  (g.leq :> leq) @@ (g.lt :> leq * not_all_zeros)

Leq_generate_r1cs_constraints(v, g) ==
    LET alpha_packed == ComparisonAlpha(v, g)
        alpha == fill_with_bits_of_field_element(alpha_packed, CmpBits + 1)
        not_all_zeros == IF \E i \in 1..CmpBits : alpha[i] = 1 THEN 1 ELSE 0
    IN  /\ SumBits(alpha, 1) = alpha_packed
        /\ v[g.leq] = alpha[CmpBits + 1]
        /\ v[g.lt] = v[g.leq] * not_all_zeros
        /\ v[g.leq] = 1

(***************************************************************************)
(* RateCheckerGadget, lines 86-126.                                        *)
(***************************************************************************)
RateCheckerGadget(j, fillS, fillB, amountS, amountB, prefix) ==
    [fillS |-> fillS, fillB |-> fillB, amountS |-> amountS, amountB |-> amountB,
     invariant |-> Wire(j, prefix \o ".invariant")]

RateChecker_generate_r1cs_witness(v, g) ==
    (g.invariant :> (v[g.amountS] * v[g.fillB]) % FieldP)

RateChecker_generate_r1cs_constraints(v, g) ==
    /\ (v[g.amountS] * v[g.fillB]) % FieldP = v[g.invariant]
    /\ (v[g.amountB] * v[g.fillS]) % FieldP = v[g.invariant]

(***************************************************************************)
(* subadd_gadget (gadgets/subadd.hpp, not part of src/): X = A - N and      *)
(* Y = B + N in the field, both range checked to n_bits bits.              *)
(***************************************************************************)
subadd_gadget(j, A, B, N, prefix) ==
    [A |-> A, B |-> B, N |-> N, X |-> Wire(j, prefix \o ".X"), Y |-> Wire(j, prefix \o ".Y")]

subadd_generate_r1cs_witness(v, g) ==
    (g.X :> (v[g.A] - v[g.N]) % FieldP) @@ (g.Y :> (v[g.B] + v[g.N]) % FieldP)

subadd_generate_r1cs_constraints(v, g) ==
    /\ v[g.X] = (v[g.A] - v[g.N]) % FieldP
    /\ v[g.Y] = (v[g.B] + v[g.N]) % FieldP
    /\ v[g.X] < 2 ^ AmountBits
    /\ v[g.Y] < 2 ^ AmountBits

(***************************************************************************)
(* The Merkle gadgets (merkle_path_authenticator, markle_path_compute over  *)
(* LongsightL12p5_MP_gadget).  A leaf hash is the tuple it hashes; a proof  *)
(* (the siblings of an address) is the content of the rest of the tree; the *)
(* root recomputed from a leaf, an address and a proof is the content of    *)
(* the whole tree.                                                         *)
(***************************************************************************)
LeafHash(inputs) == inputs

MerkleRoot(depth, addressBits, leaf, proof) ==
    <<"root", depth,
      [a \in DOMAIN proof |-> IF a = AddressOf(addressBits) THEN leaf ELSE proof[a]]>>

(***************************************************************************)
(* UpdateFilledGadget, lines 246-324.                                      *)
(***************************************************************************)
UpdateFilledGadget(j, _merkleRoot, address, prefix) ==
    [merkleRootBefore |-> _merkleRoot,
     address      |-> address,
     filledBefore |-> Wire(j, prefix \o ".filledBefore"),
     filledAfter  |-> Wire(j, prefix \o ".filledAfter"),
     proof        |-> Wire(j, prefix \o ".proof"),
     result       |-> Wire(j, prefix \o ".pathAfter.result")]

UpdateFilled_address(v, g) == flatten(ValuesOf(v, g.address))

UpdateFilled_rootBefore(v, g) ==
    MerkleRoot(TREE_DEPTH_FILLED, UpdateFilled_address(v, g),
               LeafHash(<<v[g.filledBefore], v[g.filledBefore]>>), v[g.proof])

UpdateFilled_rootAfter(v, g) ==
    MerkleRoot(TREE_DEPTH_FILLED, UpdateFilled_address(v, g),
               LeafHash(<<v[g.filledAfter], v[g.filledAfter]>>), v[g.proof])

UpdateFilled_generate_r1cs_witness(v, g, filled, _proof, fill) ==
    LET after == (filled + v[fill.packed]) % FieldP
    IN  (g.filledBefore :> filled) @@ (g.filledAfter :> after) @@ (g.proof :> _proof)
        @@ (g.result :> MerkleRoot(TREE_DEPTH_FILLED, UpdateFilled_address(v, g),
                                   LeafHash(<<after, after>>), _proof))

UpdateFilled_generate_r1cs_constraints(v, g, fill) ==
    /\ (v[g.filledBefore] + v[fill.packed]) % FieldP = v[g.filledAfter]
    /\ UpdateFilled_rootBefore(v, g) = v[g.merkleRootBefore]
    /\ v[g.result] = UpdateFilled_rootAfter(v, g)

(***************************************************************************)
(* UpdateBalanceGadget, lines 326-392.                                     *)
(***************************************************************************)
UpdateBalanceGadget(j, _merkleRoot, address, publicKey, token, balanceBefore, balanceAfter, prefix) ==
    [merkleRootBefore |-> _merkleRoot,
     address       |-> address,
     publicKey     |-> publicKey,
     token         |-> token,
     balanceBefore |-> balanceBefore,
     balanceAfter  |-> balanceAfter,
     proof         |-> Wire(j, prefix \o ".proof"),
     result        |-> Wire(j, prefix \o ".pathAfter.result")]

UpdateBalance_leafBefore(v, g) ==
    LeafHash(<<v[g.publicKey.x], v[g.publicKey.y], v[g.token], v[g.balanceBefore]>>)

UpdateBalance_leafAfter(v, g) ==
    LeafHash(<<v[g.publicKey.x], v[g.publicKey.y], v[g.token], v[g.balanceAfter]>>)

UpdateBalance_rootBefore(v, g) ==
    MerkleRoot(TREE_DEPTH_ACCOUNTS, v[g.address], UpdateBalance_leafBefore(v, g), v[g.proof])

UpdateBalance_rootAfter(v, g) ==
    MerkleRoot(TREE_DEPTH_ACCOUNTS, v[g.address], UpdateBalance_leafAfter(v, g), v[g.proof])

UpdateBalance_generate_r1cs_witness(v, g, _proof) ==
    (g.proof :> _proof)
    @@ (g.result :> MerkleRoot(TREE_DEPTH_ACCOUNTS, v[g.address],
                               UpdateBalance_leafAfter(v, g), _proof))

\* a balance update that recomputes the post-root and checks no inclusion
UpdateBalance_generate_r1cs_constraints_unchecked(v, g) ==
    v[g.result] = UpdateBalance_rootAfter(v, g)

UpdateBalance_generate_r1cs_constraints(v, g) ==
    /\ UpdateBalance_rootBefore(v, g) = v[g.merkleRootBefore]
    /\ v[g.result] = UpdateBalance_rootAfter(v, g)

(***************************************************************************)
(* OrderGadget, lines 128-244.  PureEdDSA_Verify is modelled unforgeable:   *)
(* for a key, a point R and a message there is one s that verifies.        *)
(***************************************************************************)
\* FieldT::size_in_bits(), the length of sig_s
FieldBits == 2 * AmountBits + 1

VariablePointT(j, name) == [x |-> Wire(j, name \o ".x"), y |-> Wire(j, name \o ".y")]

OrderGadget(j, prefix) ==
    LET dexID    == DualVariable(j, prefix \o ".dexID", DexBits)
        orderID  == DualVariable(j, prefix \o ".orderID", OrderIdBits)
        accountS == DualVariable(j, prefix \o ".accountS", AccountBits)
        accountB == DualVariable(j, prefix \o ".accountB", AccountBits)
        accountF == DualVariable(j, prefix \o ".accountF", AccountBits)
        amountS  == DualVariable(j, prefix \o ".amountS", AmountBits)
        amountB  == DualVariable(j, prefix \o ".amountB", AmountBits)
        amountF  == DualVariable(j, prefix \o ".amountF", AmountBits)
    IN  [dexID |-> dexID, orderID |-> orderID,
         accountS |-> accountS, accountB |-> accountB, accountF |-> accountF,
         amountS |-> amountS, amountB |-> amountB, amountF |-> amountF,
         walletF |-> DualVariable(j, prefix \o ".walletF", AccountBits),
         padding |-> DualVariable(j, prefix \o ".padding", 1),
         tokenS |-> Wire(j, prefix \o ".tokenS"),
         tokenB |-> Wire(j, prefix \o ".tokenB"),
         tokenF |-> Wire(j, prefix \o ".tokenF"),
         publicKey |-> VariablePointT(j, prefix \o ".publicKey"),
         sig_R |-> VariablePointT(j, prefix \o ".R"),
         sig_s |-> Wire(j, prefix \o ".s"),
         sig_m |-> <<dexID.bits, orderID.bits, accountS.bits, accountB.bits,
                     accountF.bits, amountS.bits, amountB.bits, amountF.bits>>]

\* the one s with which (R, s) verifies for the key and the message
EdDSA_s(publicKey, R, m) == <<"s", publicKey.x, publicKey.y, R.x, R.y, m>>

Order_message(v, g) == flatten(ValuesOf(v, g.sig_m))

Order_generate_r1cs_witness(g, order) ==
    DualWitness(g.dexID, order.dexID) @@ DualWitness(g.orderID, order.orderID)
    @@ DualWitness(g.accountS, order.accountS) @@ DualWitness(g.accountB, order.accountB)
    @@ DualWitness(g.accountF, order.accountF)
    @@ DualWitness(g.amountS, order.amountS) @@ DualWitness(g.amountB, order.amountB)
    @@ DualWitness(g.amountF, order.amountF)
    @@ DualWitness(g.padding, 0)
    @@ (g.tokenS :> order.tokenS) @@ (g.tokenB :> order.tokenB) @@ (g.tokenF :> order.tokenF)
    @@ (g.publicKey.x :> order.publicKey.x) @@ (g.publicKey.y :> order.publicKey.y)
    @@ (g.sig_R.x :> order.sig.R.x) @@ (g.sig_R.y :> order.sig.R.y)
    @@ (g.sig_s :> OpaqueBits(order.sig.s, FieldBits))

Order_signatureVerifier(v, g) ==
    v[g.sig_s] = OpaqueBits(EdDSA_s([x |-> v[g.publicKey.x], y |-> v[g.publicKey.y]],
                                    [x |-> v[g.sig_R.x], y |-> v[g.sig_R.y]],
                                    Order_message(v, g)), FieldBits)

\* the constraints OrderGadget::generate_r1cs_constraints adds, in order
Order_generate_r1cs_constraints(g) ==
    << [kind |-> "dual", g |-> g.dexID],
       [kind |-> "dual", g |-> g.orderID],
       [kind |-> "dual", g |-> g.accountS],
       [kind |-> "dual", g |-> g.accountB],
       [kind |-> "dual", g |-> g.accountF],
       [kind |-> "dual", g |-> g.amountS],
       [kind |-> "dual", g |-> g.amountB],
       [kind |-> "dual", g |-> g.amountF],
       [kind |-> "dual", g |-> g.padding],
       [kind |-> "signature", g |-> g] >>

(***************************************************************************)
(* RingSettlementGadget, lines 394-652.  The constructor (lines 446-503)    *)
(* is split by member group; every operand is the one the source passes.    *)
(***************************************************************************)
\* lines 473-476: the four sub-add gadgets
Ring_subadds(j, fillS_A, fillS_B, fillF_A, fillF_B) ==
    [balanceSB_A |-> subadd_gadget(j, Wire(j, "balanceS_A_before"), Wire(j, "balanceB_B_before"),
                                   fillS_A.packed, "balanceSB_A"),
     balanceSB_B |-> subadd_gadget(j, Wire(j, "balanceS_B_before"), Wire(j, "balanceB_A_before"),
                                   fillS_B.packed, "balanceSB_B"),
     balanceF_A  |-> subadd_gadget(j, Wire(j, "balanceF_A_before"), Wire(j, "balanceF_W_A_before"),
                                   fillF_A.packed, "balanceF_A"),
     balanceF_B  |-> subadd_gadget(j, Wire(j, "balanceF_B_before"), Wire(j, "balanceF_W_B_before"),
                                   fillF_B.packed, "balanceF_B")]

\* lines 478-480: the two trading-history updates
Ring_updateFilled(j, tradingHistoryMerkleRoot, orderA, orderB) ==
    LET updateFilledA == UpdateFilledGadget(j, tradingHistoryMerkleRoot,
                             <<orderA.orderID.bits, orderA.accountS.bits>>, "updateFilledA")
        updateFilledB == UpdateFilledGadget(j, updateFilledA.result,
                             <<orderB.orderID.bits, orderB.accountS.bits>>, "updateFilledB")
    IN  [updateFilledA |-> updateFilledA, updateFilledB |-> updateFilledB]

\* balance updates in which order B's fee is not taken from its payer
Ring_updateBalances_feeless(j, accountsMerkleRoot, orderA, orderB, sa) ==
    LET updateBalanceS_A == UpdateBalanceGadget(j, accountsMerkleRoot, orderA.accountS.bits,
            orderA.publicKey, orderA.tokenS, Wire(j, "balanceS_A_before"), sa.balanceSB_A.X, "updateBalanceS_A")
        updateBalanceB_A == UpdateBalanceGadget(j, updateBalanceS_A.result, orderA.accountB.bits,
            orderA.publicKey, orderA.tokenB, Wire(j, "balanceB_A_before"), sa.balanceSB_B.Y, "updateBalanceB_A")
        updateBalanceF_A == UpdateBalanceGadget(j, updateBalanceB_A.result, orderA.accountF.bits,
            orderA.publicKey, orderA.tokenF, Wire(j, "balanceF_A_before"), sa.balanceF_A.X, "updateBalanceF_A")
        updateBalanceS_B == UpdateBalanceGadget(j, updateBalanceF_A.result, orderB.accountS.bits,
            orderB.publicKey, orderB.tokenS, Wire(j, "balanceS_B_before"), sa.balanceSB_B.X, "updateBalanceS_B")
        updateBalanceB_B == UpdateBalanceGadget(j, updateBalanceS_B.result, orderB.accountB.bits,
            orderB.publicKey, orderB.tokenB, Wire(j, "balanceB_B_before"), sa.balanceSB_A.Y, "updateBalanceB_B")
        updateBalanceF_B == UpdateBalanceGadget(j, updateBalanceB_B.result, orderB.accountF.bits,
            orderB.publicKey, orderB.tokenF, Wire(j, "balanceF_B_before"), Wire(j, "balanceF_B_before"),
            "updateBalanceF_B")
    IN  [updateBalanceS_A |-> updateBalanceS_A, updateBalanceB_A |-> updateBalanceB_A,
         updateBalanceF_A |-> updateBalanceF_A, updateBalanceS_B |-> updateBalanceS_B,
         updateBalanceB_B |-> updateBalanceB_B, updateBalanceF_B |-> updateBalanceF_B]

\* lines 482-488: the six balance updates
Ring_updateBalances(j, accountsMerkleRoot, orderA, orderB, sa) ==
    LET updateBalanceS_A == UpdateBalanceGadget(j, accountsMerkleRoot, orderA.accountS.bits,
            orderA.publicKey, orderA.tokenS, Wire(j, "balanceS_A_before"), sa.balanceSB_A.X, "updateBalanceS_A")
        updateBalanceB_A == UpdateBalanceGadget(j, updateBalanceS_A.result, orderA.accountB.bits,
            orderA.publicKey, orderA.tokenB, Wire(j, "balanceB_A_before"), sa.balanceSB_B.Y, "updateBalanceB_A")
        updateBalanceF_A == UpdateBalanceGadget(j, updateBalanceB_A.result, orderA.accountF.bits,
            orderA.publicKey, orderA.tokenF, Wire(j, "balanceF_A_before"), sa.balanceF_A.X, "updateBalanceF_A")
        updateBalanceS_B == UpdateBalanceGadget(j, updateBalanceF_A.result, orderB.accountS.bits,
            orderB.publicKey, orderB.tokenS, Wire(j, "balanceS_B_before"), sa.balanceSB_B.X, "updateBalanceS_B")
        updateBalanceB_B == UpdateBalanceGadget(j, updateBalanceS_B.result, orderB.accountB.bits,
            orderB.publicKey, orderB.tokenB, Wire(j, "balanceB_B_before"), sa.balanceSB_A.Y, "updateBalanceB_B")
        updateBalanceF_B == UpdateBalanceGadget(j, updateBalanceB_B.result, orderB.accountF.bits,
            orderB.publicKey, orderB.tokenF, Wire(j, "balanceF_B_before"), sa.balanceF_B.X, "updateBalanceF_B")
    IN  [updateBalanceS_A |-> updateBalanceS_A, updateBalanceB_A |-> updateBalanceB_A,
         updateBalanceF_A |-> updateBalanceF_A, updateBalanceS_B |-> updateBalanceS_B,
         updateBalanceB_B |-> updateBalanceB_B, updateBalanceF_B |-> updateBalanceF_B]

\* fill caps that compare the filled amount before the ring
Ring_filledLeq_before(j, uf, orderA, orderB) ==
    [filledLeqA |-> LeqGadget(j, uf.updateFilledA.filledBefore, orderA.amountS.packed, "filledLeqA"),
     filledLeqB |-> LeqGadget(j, uf.updateFilledB.filledBefore, orderB.amountS.packed, "filledLeqB")]

\* lines 490-491: the fill caps
Ring_filledLeq(j, uf, orderA, orderB) ==
    [filledLeqA |-> LeqGadget(j, uf.updateFilledA.filledAfter, orderA.amountS.packed, "filledLeqA"),
     filledLeqB |-> LeqGadget(j, uf.updateFilledB.filledAfter, orderB.amountS.packed, "filledLeqB")]

\* lines 493-494: the price-rate checks
Ring_rateCheckers(j, orderA, orderB, fillS_A, fillB_A, fillS_B, fillB_B) ==
    [rateCheckerA |-> RateCheckerGadget(j, fillS_A.packed, fillB_A.packed,
                                        orderA.amountS.packed, orderA.amountB.packed, "rateA"),
     rateCheckerB |-> RateCheckerGadget(j, fillS_B.packed, fillB_B.packed,
                                        orderA.amountB.packed, orderB.amountB.packed, "rateB")]

\* lines 496-497: the fee-rate checks
Ring_rateCheckersFee(j, orderA, orderB, fillS_A, fillF_A, fillS_B, fillF_B) ==
    [rateCheckerFeeA |-> RateCheckerGadget(j, fillF_A.packed, fillS_A.packed,
                                           orderA.amountF.packed, orderA.amountS.packed, "rateFeeA"),
     rateCheckerFeeB |-> RateCheckerGadget(j, fillF_B.packed, fillS_B.packed,
                                           orderA.amountF.packed, orderB.amountS.packed, "rateFeeB")]

\* match feasibility that compares each bought amount with itself
Ring_matchLeq_self(j, fillS_A, fillB_A, fillS_B, fillB_B) ==
    [matchLeqA |-> LeqGadget(j, fillB_B.packed, fillB_B.packed, "matchLeqA"),
     matchLeqB |-> LeqGadget(j, fillB_A.packed, fillB_A.packed, "matchLeqB")]

\* lines 499-500: match feasibility
Ring_matchLeq(j, fillS_A, fillB_A, fillS_B, fillB_B) ==
    [matchLeqA |-> LeqGadget(j, fillB_B.packed, fillS_A.packed, "matchLeqA"),
     matchLeqB |-> LeqGadget(j, fillB_A.packed, fillS_B.packed, "matchLeqB")]

RingSettlementGadget(j, _tradingHistoryMerkleRoot, _accountsMerkleRoot) ==
    LET orderA  == OrderGadget(j, "orderA")
        orderB  == OrderGadget(j, "orderB")
        fillS_A == DualVariable(j, "fillS_A", AmountBits)
        fillB_A == DualVariable(j, "fillB_A", AmountBits)
        fillF_A == DualVariable(j, "fillF_A", AmountBits)
        fillS_B == DualVariable(j, "fillS_B", AmountBits)
        fillB_B == DualVariable(j, "fillB_B", AmountBits)
        fillF_B == DualVariable(j, "fillF_B", AmountBits)
        sa == Ring_subadds(j, fillS_A, fillS_B, fillF_A, fillF_B)
        uf == Ring_updateFilled(j, _tradingHistoryMerkleRoot, orderA, orderB)
        ub == Ring_updateBalances(j, _accountsMerkleRoot, orderA, orderB, sa)
        fl == Ring_filledLeq(j, uf, orderA, orderB)
        rc == Ring_rateCheckers(j, orderA, orderB, fillS_A, fillB_A, fillS_B, fillB_B)
        rf == Ring_rateCheckersFee(j, orderA, orderB, fillS_A, fillF_A, fillS_B, fillF_B)
        ml == Ring_matchLeq(j, fillS_A, fillB_A, fillS_B, fillB_B)
    IN  [index |-> j,
         tradingHistoryMerkleRoot |-> _tradingHistoryMerkleRoot,
         accountsMerkleRoot |-> _accountsMerkleRoot,
         orderA |-> orderA, orderB |-> orderB,
         fillS_A |-> fillS_A, fillB_A |-> fillB_A, fillF_A |-> fillF_A,
         fillS_B |-> fillS_B, fillB_B |-> fillB_B, fillF_B |-> fillF_B,
         balanceS_A_before |-> Wire(j, "balanceS_A_before"),
         balanceB_A_before |-> Wire(j, "balanceB_A_before"),
         balanceF_A_before |-> Wire(j, "balanceF_A_before"),
         balanceF_W_A_before |-> Wire(j, "balanceF_W_A_before"),
         balanceS_B_before |-> Wire(j, "balanceS_B_before"),
         balanceB_B_before |-> Wire(j, "balanceB_B_before"),
         balanceF_B_before |-> Wire(j, "balanceF_B_before"),
         balanceF_W_B_before |-> Wire(j, "balanceF_W_B_before"),
         balanceSB_A |-> sa.balanceSB_A, balanceSB_B |-> sa.balanceSB_B,
         balanceF_A |-> sa.balanceF_A, balanceF_B |-> sa.balanceF_B,
         updateFilledA |-> uf.updateFilledA, updateFilledB |-> uf.updateFilledB,
         updateBalanceS_A |-> ub.updateBalanceS_A, updateBalanceB_A |-> ub.updateBalanceB_A,
         updateBalanceF_A |-> ub.updateBalanceF_A, updateBalanceS_B |-> ub.updateBalanceS_B,
         updateBalanceB_B |-> ub.updateBalanceB_B, updateBalanceF_B |-> ub.updateBalanceF_B,
         filledLeqA |-> fl.filledLeqA, filledLeqB |-> fl.filledLeqB,
         rateCheckerA |-> rc.rateCheckerA, rateCheckerB |-> rc.rateCheckerB,
         rateCheckerFeeA |-> rf.rateCheckerFeeA, rateCheckerFeeB |-> rf.rateCheckerFeeB,
         matchLeqA |-> ml.matchLeqA, matchLeqB |-> ml.matchLeqB]

\* lines 505-508
getNewTradingHistoryMerkleRoot(ring) == ring.updateFilledB.result

\* lines 510-513
getNewAccountsMerkleRoot(ring) == ring.updateBalanceB_B.result

\* public data in which each record carries the order's own accountB
getPublicData_own(ring) ==
    << ring.orderA.dexID.bits, ring.orderA.orderID.bits,
       ring.orderA.accountS.bits, ring.orderA.accountB.bits, ring.fillS_A.bits,
       ring.orderA.accountF.bits, ring.fillF_A.bits,
       ring.orderB.dexID.bits, ring.orderB.orderID.bits,
       ring.orderB.accountS.bits, ring.orderB.accountB.bits, ring.fillS_B.bits,
       ring.orderB.accountF.bits, ring.fillF_B.bits >>

\* lines 515-524
getPublicData(ring) ==
    << ring.orderA.dexID.bits, ring.orderA.orderID.bits,
       ring.orderA.accountS.bits, ring.orderB.accountB.bits, ring.fillS_A.bits,
       ring.orderA.accountF.bits, ring.fillF_A.bits,
       ring.orderB.dexID.bits, ring.orderB.orderID.bits,
       ring.orderB.accountS.bits, ring.orderA.accountB.bits, ring.fillS_B.bits,
       ring.orderB.accountF.bits, ring.fillF_B.bits >>

\* lines 528-551: the orders, the fills and the balances before
Ring_witness_inputs(v, ring, ringSettlement) ==
    Order_generate_r1cs_witness(ring.orderA, ringSettlement.ring.orderA)
    @@ Order_generate_r1cs_witness(ring.orderB, ringSettlement.ring.orderB)
    @@ DualWitness(ring.fillS_A, ringSettlement.ring.fillS_A)
    @@ DualWitness(ring.fillB_A, ringSettlement.ring.fillB_A)
    @@ DualWitness(ring.fillF_A, ringSettlement.ring.fillF_A)
    @@ DualWitness(ring.fillS_B, ringSettlement.ring.fillS_B)
    @@ DualWitness(ring.fillB_B, ringSettlement.ring.fillB_B)
    @@ DualWitness(ring.fillF_B, ringSettlement.ring.fillF_B)
    @@ (ring.balanceS_A_before :> ringSettlement.accountS_A_before.balance)
    @@ (ring.balanceB_A_before :> ringSettlement.accountB_A_before.balance)
    @@ (ring.balanceF_A_before :> ringSettlement.accountF_A_before.balance)
    @@ (ring.balanceF_W_A_before :> 0)
    @@ (ring.balanceS_B_before :> ringSettlement.accountS_B_before.balance)
    @@ (ring.balanceB_B_before :> ringSettlement.accountB_B_before.balance)
    @@ (ring.balanceF_B_before :> ringSettlement.accountF_B_before.balance)
    @@ (ring.balanceF_W_B_before :> 0)
    @@ v

\* lines 552-555: the sub-adds
Ring_witness_subadds(v, ring) ==
    subadd_generate_r1cs_witness(v, ring.balanceSB_A)
    @@ subadd_generate_r1cs_witness(v, ring.balanceSB_B)
    @@ subadd_generate_r1cs_witness(v, ring.balanceF_A)
    @@ subadd_generate_r1cs_witness(v, ring.balanceF_B)
    @@ v

\* line 561: the ring's trading-history root wire is written
Ring_witness_tradingHistoryMerkleRoot(v, ring, ringSettlement) ==
    Assign(v, ring.tradingHistoryMerkleRoot, ringSettlement.tradingHistoryMerkleRoot)

\* line 562
Ring_witness_updateFilledA(v, ring, ringSettlement) ==
    UpdateFilled_generate_r1cs_witness(v, ring.updateFilledA, ringSettlement.filledA,
                                       ringSettlement.proofFilledA, ring.fillS_A) @@ v

\* line 563
Ring_witness_updateFilledB(v, ring, ringSettlement) ==
    UpdateFilled_generate_r1cs_witness(v, ring.updateFilledB, ringSettlement.filledB,
                                       ringSettlement.proofFilledB, ring.fillS_B) @@ v

\* lines 565-566
Ring_witness_filledLeq(v, ring) ==
    Leq_generate_r1cs_witness(v, ring.filledLeqA)
    @@ Leq_generate_r1cs_witness(v, ring.filledLeqB) @@ v

\* lines 572-577: the six balance updates
Ring_witness_updateBalances(v, ring, ringSettlement) ==
    UpdateBalance_generate_r1cs_witness(v, ring.updateBalanceS_A, ringSettlement.accountS_A_proof)
    @@ UpdateBalance_generate_r1cs_witness(v, ring.updateBalanceB_A, ringSettlement.accountB_A_proof)
    @@ UpdateBalance_generate_r1cs_witness(v, ring.updateBalanceF_A, ringSettlement.accountF_A_proof)
    @@ UpdateBalance_generate_r1cs_witness(v, ring.updateBalanceS_B, ringSettlement.accountS_B_proof)
    @@ UpdateBalance_generate_r1cs_witness(v, ring.updateBalanceB_B, ringSettlement.accountB_B_proof)
    @@ UpdateBalance_generate_r1cs_witness(v, ring.updateBalanceF_B, ringSettlement.accountF_B_proof)
    @@ v

\* lines 584-587: the rate checks
Ring_witness_rateCheckers(v, ring) ==
    RateChecker_generate_r1cs_witness(v, ring.rateCheckerA)
    @@ RateChecker_generate_r1cs_witness(v, ring.rateCheckerB)
    @@ RateChecker_generate_r1cs_witness(v, ring.rateCheckerFeeA)
    @@ RateChecker_generate_r1cs_witness(v, ring.rateCheckerFeeB)
    @@ v

\* lines 590-591: match feasibility
Ring_witness_matchLeq(v, ring) ==
    Leq_generate_r1cs_witness(v, ring.matchLeqA)
    @@ Leq_generate_r1cs_witness(v, ring.matchLeqB) @@ v

\* lines 526-592: the steps above in the order of the source
Ring_generate_r1cs_witness(v, ring, ringSettlement) ==
    Ring_witness_matchLeq(
        Ring_witness_rateCheckers(
            Ring_witness_updateBalances(
                Ring_witness_filledLeq(
                    Ring_witness_updateFilledB(
                        Ring_witness_updateFilledA(
                            Ring_witness_tradingHistoryMerkleRoot(
                                Ring_witness_subadds(
                                    Ring_witness_inputs(v, ring, ringSettlement),
                                    ring),
                                ring, ringSettlement),
                            ring, ringSettlement),
                        ring, ringSettlement),
                    ring),
                ring, ringSettlement),
            ring),
        ring)

\* token symmetry with its second constraint a copy of the first
Ring_tokenConstraints_first(ring) ==
    << [kind |-> "equal", a |-> ring.orderA.tokenS, b |-> ring.orderB.tokenB],
       [kind |-> "equal", a |-> ring.orderA.tokenS, b |-> ring.orderB.tokenB] >>

\* lines 639-640: the two token constraints
Ring_tokenConstraints(ring) ==
    << [kind |-> "equal", a |-> ring.orderA.tokenS, b |-> ring.orderB.tokenB],
       [kind |-> "equal", a |-> ring.orderA.tokenB, b |-> ring.orderB.tokenS] >>

\* lines 595-651: the constraints of one ring, in the order they are added
Ring_generate_r1cs_constraints(ring) ==
    Order_generate_r1cs_constraints(ring.orderA)
    \o Order_generate_r1cs_constraints(ring.orderB)
    \o << [kind |-> "dual", g |-> ring.fillS_A],
          [kind |-> "dual", g |-> ring.fillB_A],
          [kind |-> "dual", g |-> ring.fillF_A],
          [kind |-> "dual", g |-> ring.fillS_B],
          [kind |-> "dual", g |-> ring.fillB_B],
          [kind |-> "dual", g |-> ring.fillF_B],
          [kind |-> "subadd", g |-> ring.balanceSB_A],
          [kind |-> "subadd", g |-> ring.balanceSB_B],
          [kind |-> "subadd", g |-> ring.balanceF_A],
          [kind |-> "subadd", g |-> ring.balanceF_B],
          [kind |-> "updateFilled", g |-> ring.updateFilledA, fill |-> ring.fillS_A],
          [kind |-> "updateFilled", g |-> ring.updateFilledB, fill |-> ring.fillS_B],
          [kind |-> "leq", g |-> ring.filledLeqA],
          [kind |-> "leq", g |-> ring.filledLeqB],
          [kind |-> "updateBalance", g |-> ring.updateBalanceS_A],
          [kind |-> "updateBalance", g |-> ring.updateBalanceB_A],
          [kind |-> "updateBalance", g |-> ring.updateBalanceF_A],
          [kind |-> "updateBalance", g |-> ring.updateBalanceS_B],
          [kind |-> "updateBalance", g |-> ring.updateBalanceB_B],
          [kind |-> "updateBalance", g |-> ring.updateBalanceF_B],
          Ring_tokenConstraints(ring)[1],
          Ring_tokenConstraints(ring)[2],
          [kind |-> "rate", g |-> ring.rateCheckerA],
          [kind |-> "rate", g |-> ring.rateCheckerB],
          [kind |-> "rate", g |-> ring.rateCheckerFeeA],
          [kind |-> "rate", g |-> ring.rateCheckerFeeB],
          [kind |-> "leq", g |-> ring.matchLeqA],
          [kind |-> "leq", g |-> ring.matchLeqB] >>

(***************************************************************************)
(* CircuitGadget, lines 654-807.                                           *)
(***************************************************************************)
\* lines 676-681: the dual variables of the circuit top
publicDataHash == DualVariable(0, "publicDataHash", DigestBits)
tradingHistoryMerkleRootBefore == RootVariable(0, "tradingHistoryMerkleRootBefore")
tradingHistoryMerkleRootAfter == RootVariable(0, "tradingHistoryMerkleRootAfter")
accountsMerkleRootBefore == RootVariable(0, "accountsMerkleRootBefore")
accountsMerkleRootAfter == RootVariable(0, "accountsMerkleRootAfter")

\* the digest wire of publicDataHasher (sha256_many::result())
publicDataHasher_result == Wire(0, "publicDataHasher.result")

\* every ring built on the declared pre-root instead of the root the ring
\* before it returns
ringTradingHistoryMerkleRoot_declared(rings) == tradingHistoryMerkleRootBefore.packed

\* line 704: the trading-history pre-root of the ring about to be built
ringTradingHistoryMerkleRoot(rings) ==
    IF rings = <<>> THEN tradingHistoryMerkleRootBefore.packed
    ELSE getNewTradingHistoryMerkleRoot(rings[Len(rings)])

\* line 705: the accounts pre-root of the ring about to be built
ringAccountsMerkleRoot(rings) ==
    IF rings = <<>> THEN accountsMerkleRootBefore.packed
    ELSE getNewTradingHistoryMerkleRoot(rings[Len(rings)])

\* lines 702-711: the loop that builds the rings
RECURSIVE BuildRings(_, _)
BuildRings(rings, n) ==
    IF Len(rings) >= n THEN rings
    ELSE BuildRings(Append(rings,
                           RingSettlementGadget(Len(rings) + 1,
                                                ringTradingHistoryMerkleRoot(rings),
                                                ringAccountsMerkleRoot(rings))), n)

\* lines 700-701 and 709-710: the bit arrays that are hashed, in order
RECURSIVE RingsPublicData(_, _)
RingsPublicData(rings, j) ==
    IF j > Len(rings) THEN <<>>
    ELSE getPublicData(rings[j]) \o RingsPublicData(rings, j + 1)

CollectPublicDataBits(rings) ==
    <<tradingHistoryMerkleRootBefore.bits, tradingHistoryMerkleRootAfter.bits>>
    \o RingsPublicData(rings, 1)

\* lines 714-717
RECURSIVE RingsConstraints(_, _)
RingsConstraints(rings, j) ==
    IF j > Len(rings) THEN <<>>
    ELSE Ring_generate_r1cs_constraints(rings[j]) \o RingsConstraints(rings, j + 1)

\* a closing constraint that compares the declared post-root with itself
ClosingConstraint_self(rings) ==
    [kind |-> "equal", a |-> tradingHistoryMerkleRootAfter.packed,
     b |-> tradingHistoryMerkleRootAfter.packed]

\* line 731: the closing constraint
ClosingConstraint(rings) ==
    [kind |-> "equal", a |-> getNewTradingHistoryMerkleRoot(rings[Len(rings)]),
     b |-> tradingHistoryMerkleRootAfter.packed]

\* lines 694-732: every constraint of the circuit, in the order it is added
Circuit_constraints(rings, dataBits) ==
    << [kind |-> "dual", g |-> tradingHistoryMerkleRootBefore] >>
    \o << [kind |-> "dual", g |-> publicDataHash] >>
    \o RingsConstraints(rings, 1)
    \o << [kind |-> "sha256", input |-> dataBits, result |-> publicDataHasher_result],
          [kind |-> "publicData.check", digest |-> publicDataHasher_result, g |-> publicDataHash],
          ClosingConstraint(rings) >>

\* the values that are hashed: publicData = flattenReverse(publicDataBits), line 720
PublicData(v, dataBits) == flattenReverse(ValuesOf(v, dataBits))

\* the bits of the scaled digest, most significant first: a checksum of the
\* stream after the two roots (whose bits are opaque)
RECURSIVE StreamSum(_, _, _)
StreamSum(stream, lo, hi) ==
    IF lo > hi THEN 0
    ELSE IF lo = hi THEN (stream[lo] * lo) % 2 ^ DigestBits
    ELSE (StreamSum(stream, lo, (lo + hi) \div 2)
          + StreamSum(stream, (lo + hi) \div 2 + 1, hi)) % 2 ^ DigestBits

SHA256Bits(stream) ==
    LET sum == StreamSum(stream, 2 * RootBits + 1, Len(stream))
    IN  [i \in 1..DigestBits |-> (sum \div 2 ^ (DigestBits - i)) % 2]

\* sha256_many: the digest of a stream; `of` keeps it collision free
SHA256(stream) == [of |-> stream, bits |-> SHA256Bits(stream)]

\* a check that pairs digest bit i with publicDataHash bit i
PublicDataCheck_same(v, c) ==
    \A i \in 0..(DigestBits - 1) :
        v[c.digest].bits[i + 1] = v[c.g.bits][i + 1]

\* lines 725-728: digest bit 255-i equals publicDataHash bit i
PublicDataCheck(v, c) ==
    \A i \in 0..(DigestBits - 1) :
        v[c.digest].bits[(DigestBits - 1 - i) + 1] = v[c.g.bits][i + 1]

\* whether one constraint holds under the assignment v
Holds(v, c) ==
    CASE c.kind = "dual"          -> DualConstraint(v, c.g)
      [] c.kind = "signature"     -> Order_signatureVerifier(v, c.g)
      [] c.kind = "subadd"        -> subadd_generate_r1cs_constraints(v, c.g)
      [] c.kind = "updateFilled"  -> UpdateFilled_generate_r1cs_constraints(v, c.g, c.fill)
      [] c.kind = "updateBalance" -> UpdateBalance_generate_r1cs_constraints(v, c.g)
      [] c.kind = "leq"           -> Leq_generate_r1cs_constraints(v, c.g)
      [] c.kind = "rate"          -> RateChecker_generate_r1cs_constraints(v, c.g)
      [] c.kind = "equal"         -> v[c.a] = v[c.b]
      [] c.kind = "sha256"        -> v[c.result] = SHA256(PublicData(v, c.input))
      [] c.kind = "publicData.check" -> PublicDataCheck(v, c)

\* pb.is_satisfied(): every constraint that was added holds
Satisfied == \A i \in DOMAIN constraints : Holds(val, constraints[i])

\* lines 778-781: the witness of every ring, in order
RECURSIVE RingsWitness(_, _, _, _)
RingsWitness(v, rings, ringSettlementsData, i) ==
    IF i > Len(ringSettlementsData) THEN v
    ELSE RingsWitness(Ring_generate_r1cs_witness(v, rings[i], ringSettlementsData[i]),
                      rings, ringSettlementsData, i + 1)

\* lines 788-792: the digest read as an integer, most significant bit first
RECURSIVE publicDataHashDec(_, _)
publicDataHashDec(full_output_bits, i) ==
    IF i = 0 THEN 0
    ELSE publicDataHashDec(full_output_bits, i - 1) * 2 + full_output_bits[i]

\* lines 794-798: bit i of the integer read from the digest
publicDataHash_bits(full_output_bits) ==
    [i \in 1..DigestBits |->
        (publicDataHashDec(full_output_bits, DigestBits) \div 2 ^ (i - 1)) % 2]

\* lines 783-799: the hasher's witness and the bits of the public input
PublicDataHash_assign(v, digest) ==
    (publicDataHasher_result :> digest)
    @@ (publicDataHash.bits :> publicDataHash_bits(digest.bits))
    @@ (publicDataHash.packed :> PackBits(publicDataHash_bits(digest.bits))) @@ v

PublicDataHash_witness(v, dataBits) ==
    PublicDataHash_assign(v, SHA256(PublicData(v, dataBits)))

\* lines 766-776: the four declared roots
Circuit_witness_roots(v, in) ==
    DualWitness(tradingHistoryMerkleRootBefore, in.tradingHistoryMerkleRootBefore)
    @@ DualWitness(tradingHistoryMerkleRootAfter, in.tradingHistoryMerkleRootAfter)
    @@ DualWitness(accountsMerkleRootBefore, in.accountsMerkleRootBefore)
    @@ DualWitness(accountsMerkleRootAfter, in.accountsMerkleRootAfter)
    @@ v

\* lines 760-806
Circuit_generateWitness(v, rings, dataBits, in) ==
    PublicDataHash_witness(
        RingsWitness(Circuit_witness_roots(v, in), rings, in.ringSettlements, 1),
        dataBits)

(***************************************************************************)
(* The inputs of generateWitness: batches an operator can hand to the       *)
(* prover.  A scenario fixes two orders, the fills of a ring, the balances  *)
(* and the filled amounts of the pre-state; the operator settles the ring   *)
(* numRings times on its own copy of the two trees.                         *)
(***************************************************************************)
KeyA == [x |-> 1, y |-> 2]
KeyB == [x |-> 3, y |-> 4]
SigR == [x |-> 5, y |-> 6]

\* the message of an order: the bits of the eight signed fields, line 181
MessageOf(order) ==
    flatten(<< fill_with_bits_of_field_element(order.dexID, DexBits),
               fill_with_bits_of_field_element(order.orderID, OrderIdBits),
               fill_with_bits_of_field_element(order.accountS, AccountBits),
               fill_with_bits_of_field_element(order.accountB, AccountBits),
               fill_with_bits_of_field_element(order.accountF, AccountBits),
               fill_with_bits_of_field_element(order.amountS, AmountBits),
               fill_with_bits_of_field_element(order.amountB, AmountBits),
               fill_with_bits_of_field_element(order.amountF, AmountBits) >>)

\* the order with its owner's signature
Sign(order) ==
    order @@ [sig |-> [R |-> SigR, s |-> EdDSA_s(order.publicKey, SigR, MessageOf(order))]]

OrderA(sc) ==
    Sign([dexID |-> 1, orderID |-> 0, accountS |-> 0, accountB |-> 1, accountF |-> 2,
          amountS |-> sc.A[1], amountB |-> sc.A[2], amountF |-> sc.A[3],
          tokenS |-> sc.tokens[1], tokenB |-> sc.tokens[2], tokenF |-> 3, publicKey |-> KeyA])

OrderB(sc) ==
    Sign([dexID |-> 1, orderID |-> 1, accountS |-> 3, accountB |-> 4, accountF |-> 5,
          amountS |-> sc.B[1], amountB |-> sc.B[2], amountF |-> sc.B[3],
          tokenS |-> sc.tokens[3], tokenB |-> sc.tokens[4], tokenF |-> 3, publicKey |-> KeyB])

\* the trading-history leaf of an order: orderID.bits ++ accountS.bits, line 479
HistoryAddress(order) == order.orderID + 2 ^ OrderIdBits * order.accountS

Root(depth, tree) == <<"root", depth, tree>>

\* the siblings of an address: the tree without the leaf at the address
ProofOf(tree, address) == [a \in DOMAIN tree |-> IF a = address THEN <<>> ELSE tree[a]]

AccountLeaf(key, token, balance) == <<key.x, key.y, token, balance>>

\* the accounts tree of the pre-state: the six accounts of the two orders
InitialAccounts(sc) ==
    LET A == OrderA(sc)
        B == OrderB(sc)
    IN  [a \in 0..(2 ^ TREE_DEPTH_ACCOUNTS - 1) |->
            CASE a = A.accountS -> AccountLeaf(KeyA, A.tokenS, sc.balance[1])
              [] a = A.accountB -> AccountLeaf(KeyA, A.tokenB, sc.balance[2])
              [] a = A.accountF -> AccountLeaf(KeyA, A.tokenF, sc.balance[3])
              [] a = B.accountS -> AccountLeaf(KeyB, B.tokenS, sc.balance[4])
              [] a = B.accountB -> AccountLeaf(KeyB, B.tokenB, sc.balance[5])
              [] a = B.accountF -> AccountLeaf(KeyB, B.tokenF, sc.balance[6])
              [] OTHER -> <<0, 0, 0, 0>>]

\* the trading-history tree of the pre-state
InitialHistory(sc) ==
    [a \in 0..(2 ^ TREE_DEPTH_FILLED - 1) |->
        CASE a = HistoryAddress(OrderA(sc)) -> <<sc.filled[1], sc.filled[1]>>
          [] a = HistoryAddress(OrderB(sc)) -> <<sc.filled[2], sc.filled[2]>>
          [] OTHER -> <<0, 0>>]

SetBalance(tree, address, balance) ==
    [a \in DOMAIN tree |->
        IF a = address THEN <<tree[a][1], tree[a][2], tree[a][3], balance>> ELSE tree[a]]

SetFilled(tree, address, filled) ==
    [a \in DOMAIN tree |-> IF a = address THEN <<filled, filled>> ELSE tree[a]]

\* the balance of a leaf moved by delta
AddBalance(tree, address, delta) ==
    SetBalance(tree, address, (tree[address][4] + delta) % FieldP)

\* the filled amount of a leaf raised by fill
AddFilled(tree, address, fill) ==
    SetFilled(tree, address, (tree[address][1] + fill) % FieldP)

\* one ring settled by the operator on its trees: the RingSettlement it
\* hands to the prover is appended and the trees are those after the ring
SettleRing(sc, s) ==
    LET A == OrderA(sc)
        B == OrderB(sc)
        f == sc.fill
        hist1 == AddFilled(s.hist, HistoryAddress(A), f[1])
        hist2 == AddFilled(hist1, HistoryAddress(B), f[4])
        t1 == AddBalance(s.acct, A.accountS, 0 - f[1])
        t2 == AddBalance(t1, A.accountB, f[4])
        t3 == AddBalance(t2, A.accountF, 0 - f[3])
        t4 == AddBalance(t3, B.accountS, 0 - f[4])
        t5 == AddBalance(t4, B.accountB, f[1])
        t6 == AddBalance(t5, B.accountF, 0 - f[6])
        data ==
            [ring |-> [orderA |-> A, orderB |-> B,
                       fillS_A |-> f[1], fillB_A |-> f[2], fillF_A |-> f[3],
                       fillS_B |-> f[4], fillB_B |-> f[5], fillF_B |-> f[6]],
             accountS_A_before |-> [balance |-> s.acct[A.accountS][4]],
             accountB_A_before |-> [balance |-> t1[A.accountB][4]],
             accountF_A_before |-> [balance |-> t2[A.accountF][4]],
             accountS_B_before |-> [balance |-> t3[B.accountS][4]],
             accountB_B_before |-> [balance |-> t4[B.accountB][4]],
             accountF_B_before |-> [balance |-> t5[B.accountF][4]],
             tradingHistoryMerkleRoot |-> Root(TREE_DEPTH_FILLED, s.hist),
             filledA |-> s.hist[HistoryAddress(A)][1],
             filledB |-> hist1[HistoryAddress(B)][1],
             proofFilledA |-> ProofOf(s.hist, HistoryAddress(A)),
             proofFilledB |-> ProofOf(hist1, HistoryAddress(B)),
             accountS_A_proof |-> ProofOf(s.acct, A.accountS),
             accountB_A_proof |-> ProofOf(t1, A.accountB),
             accountF_A_proof |-> ProofOf(t2, A.accountF),
             accountS_B_proof |-> ProofOf(t3, B.accountS),
             accountB_B_proof |-> ProofOf(t4, B.accountB),
             accountF_B_proof |-> ProofOf(t5, B.accountF)]
    IN  [ringSettlements |-> Append(s.ringSettlements, data), hist |-> hist2, acct |-> t6]

\* n rings settled one after the other
RECURSIVE Settle(_, _, _)
Settle(sc, s, n) ==
    IF Len(s.ringSettlements) >= n THEN s ELSE Settle(sc, SettleRing(sc, s), n)

\* the batch an operator declares: the rings it settled, the roots of the
\* trees it started from and the roots of the trees it ended with
DeclaredBatch(sc, r) ==
    [ringSettlements |-> r.ringSettlements,
     tradingHistoryMerkleRootBefore |-> Root(TREE_DEPTH_FILLED, InitialHistory(sc)),
     tradingHistoryMerkleRootAfter |-> Root(TREE_DEPTH_FILLED, r.hist),
     accountsMerkleRootBefore |-> Root(TREE_DEPTH_ACCOUNTS, InitialAccounts(sc)),
     accountsMerkleRootAfter |-> Root(TREE_DEPTH_ACCOUNTS, r.acct)]

\* the batch of n rings an honest operator builds from a scenario, with the
\* four roots it declares (the arguments of generateWitness, lines 760-762)
HonestBatch(sc, n) ==
    DeclaredBatch(sc, Settle(sc, [ringSettlements |-> <<>>, hist |-> InitialHistory(sc),
                                  acct |-> InitialAccounts(sc)], n))

(***************************************************************************)
(* The scenarios: amounts (sell, buy, fee) of the two orders, the six fills *)
(* (fillS_A, fillB_A, fillF_A, fillS_B, fillB_B, fillF_B), the six balances *)
(* of the pre-state (S_A, B_A, F_A, S_B, B_B, F_B), the two filled amounts  *)
(* and the tokens (tokenS and tokenB of order A, then of order B).  The amounts are those of the spec's scenarios divided by 100.  *)
(***************************************************************************)
\* a complete fill of two orders with crossing rates and fee rates 2/10, 4/20
FullFill ==
    [A |-> <<10, 20, 2>>, B |-> <<20, 10, 4>>, fill |-> <<10, 20, 2, 20, 10, 4>>,
     balance |-> <<10, 0, 5, 20, 0, 5>>, filled |-> <<0, 0>>, tokens |-> <<1, 2, 2, 1>>]

\* the same orders filled by half
HalfFill == [FullFill EXCEPT !.fill = <<5, 10, 1, 10, 5, 2>>]

\* order B pays the same fee amount as order A
EqualFee == [FullFill EXCEPT !.B = <<20, 10, 2>>, !.fill = <<10, 20, 2, 20, 10, 2>>]

EqualFeeHalf == [EqualFee EXCEPT !.fill = <<5, 10, 1, 10, 5, 1>>]

\* order B sells 30 for 10 and offers a fee of 1, and is filled 20 for 10
\* with a fee of 2
OffRate ==
    [A |-> <<10, 20, 3>>, B |-> <<30, 10, 1>>, fill |-> <<10, 20, 3, 20, 10, 2>>,
     balance |-> <<10, 0, 5, 20, 0, 5>>, filled |-> <<0, 0>>, tokens |-> <<1, 2, 2, 1>>]

\* order A's seller holds one unit less than the fill
LowBalance == [EqualFee EXCEPT !.balance = <<9, 0, 5, 20, 0, 5>>]

\* order A is already filled by 6 of 10
OverFill == [EqualFee EXCEPT !.filled = <<6, 0>>]

\* the second half of orders that are already filled by half
SecondHalf == [EqualFeeHalf EXCEPT !.filled = <<5, 10>>]

\* the trading-history leaf of order A holds the field element -1
WrappedFilled == [EqualFee EXCEPT !.filled = <<FieldP - 1, 0>>]

\* order B sells 20 for 5 and is filled 20 for 5: it buys less than order A
\* sells
Margin == [EqualFee EXCEPT !.B = <<20, 5, 2>>, !.fill = <<10, 20, 2, 20, 5, 2>>]

\* order B sells 20 for 15 and is filled 20 for 15: it buys more than order A
\* sells
Short == [EqualFee EXCEPT !.B = <<20, 15, 2>>, !.fill = <<10, 20, 2, 20, 15, 2>>]

\* order B sells token 3 while order A buys token 2
Mismatched == [EqualFee EXCEPT !.tokens = <<1, 2, 3, 1>>]

Scenarios ==
    {FullFill, HalfFill, EqualFee, EqualFeeHalf, OffRate, LowBalance, OverFill, SecondHalf,
     WrappedFilled, Margin, Short, Mismatched}

\* the scenarios settled by a circuit of n rings: a longer batch repeats a
\* ring that leaves room for the next one
ScenariosOf(n) == IF n = 1 THEN Scenarios ELSE {HalfFill, EqualFeeHalf, OffRate}

(***************************************************************************)
(* What the operator may get wrong: one field of one ring, or one declared  *)
(* root, differs from the honest batch.                                     *)
(***************************************************************************)
FillFields == {"fillS_A", "fillB_A", "fillF_A", "fillS_B", "fillB_B", "fillF_B"}
BalanceFields == {"accountS_A_before", "accountB_A_before", "accountF_A_before",
                  "accountS_B_before", "accountB_B_before", "accountF_B_before"}
FilledFields == {"filledA", "filledB"}
ProofFields == {"proofFilledA", "proofFilledB", "accountS_A_proof", "accountB_A_proof",
                "accountF_A_proof", "accountS_B_proof", "accountB_B_proof", "accountF_B_proof"}
OrderFields == {"amountS", "amountB", "amountF", "tokenS", "tokenB", "accountS"}
RootFields == {"tradingHistoryMerkleRootBefore", "tradingHistoryMerkleRootAfter",
               "accountsMerkleRootBefore", "accountsMerkleRootAfter"}

\* another leaf value: the last entry moves to its neighbour
OtherLeaf(leaf) ==
    [i \in 1..Len(leaf) |->
        IF i < Len(leaf) THEN leaf[i] ELSE IF leaf[i] % 2 = 0 THEN leaf[i] + 1 ELSE leaf[i] - 1]

\* another root: the root of the tree whose last leaf differs
OtherRoot(root) ==
    <<root[1], root[2],
      [a \in DOMAIN root[3] |->
          IF a = Cardinality(DOMAIN root[3]) - 1 THEN OtherLeaf(root[3][a]) ELSE root[3][a]]>>

\* another proof: the last sibling differs
OtherProof(proof) ==
    [a \in DOMAIN proof |->
        IF a = Cardinality(DOMAIN proof) - 1 THEN OtherLeaf(proof[a]) ELSE proof[a]]

\* the values a mistaken fill takes: zero, one unit short of FullFill's
\* fillB_A, and a value wider than the fill's bits
FillValues == {0, 19, 2 ^ AmountBits + 10}

\* a circuit of one ring meets every mistake; in a longer batch the mistake
\* is a root, a fill or a signature of the last ring
Mutations(n) ==
    {[ring |-> 0, field |-> "none", value |-> 0]}
    \cup [ring : {0}, field : RootFields, value : {0}]
    \cup [ring : {n}, field : FillFields, value : FillValues]
    \cup [ring : {n}, field : {"sigA", "sigB"}, value : {0}]
    \cup IF n > 1 THEN {}
         ELSE [ring : {n}, field : BalanceFields \cup FilledFields, value : {1}]
              \cup [ring : {n}, field : ProofFields \cup {"tradingHistoryMerkleRoot"}, value : {0}]
              \cup [ring : {n}, field : {"orderA", "orderB"}, value : OrderFields]

MutateRing(rs, m) ==
    CASE m.field \in FillFields    -> [rs EXCEPT !.ring[m.field] = m.value]
      [] m.field \in BalanceFields -> [rs EXCEPT ![m.field].balance = (@ + m.value) % FieldP]
      [] m.field \in FilledFields  -> [rs EXCEPT ![m.field] = (@ + m.value) % FieldP]
      [] m.field \in ProofFields   -> [rs EXCEPT ![m.field] = OtherProof(@)]
      [] m.field = "tradingHistoryMerkleRoot" -> [rs EXCEPT ![m.field] = OtherRoot(@)]
      [] m.field = "sigA" -> [rs EXCEPT !.ring.orderA.sig.R.x = @ + 1]
      [] m.field = "sigB" -> [rs EXCEPT !.ring.orderB.sig.R.x = @ + 1]
      [] m.field \in {"orderA", "orderB"} ->
             [rs EXCEPT !.ring[m.field][m.value] = IF @ % 2 = 0 THEN @ + 1 ELSE @ - 1]

Mutate(batch, m) ==
    CASE m.field = "none"      -> batch
      [] m.field \in RootFields -> [batch EXCEPT ![m.field] = OtherRoot(@)]
      [] OTHER -> [batch EXCEPT !.ringSettlements[m.ring] = MutateRing(@, m)]

(***************************************************************************)
(* The state machine.                                                      *)
(***************************************************************************)
Init ==
    /\ pc = "constructed"
    /\ numRings = 0
    /\ ringSettlements = <<>>
    /\ publicDataBits = <<>>
    /\ constraints = <<>>
    /\ val = <<>>
    /\ input = <<>>

\* CircuitGadget::generate_r1cs_constraints(numRings), lines 694-732
GenerateConstraints(n) ==
    /\ pc = "constructed"
    /\ pc' = "constraints"
    /\ numRings' = n
    /\ ringSettlements' = BuildRings(<<>>, n)
    /\ publicDataBits' = CollectPublicDataBits(ringSettlements')
    /\ constraints' = Circuit_constraints(ringSettlements', publicDataBits')
    /\ UNCHANGED <<val, input>>

\* CircuitGadget::generateWitness, lines 760-806
GenerateWitness(sc, m) ==
    /\ pc = "constraints"
    /\ pc' = "witness"
    /\ input' = Mutate(HonestBatch(sc, numRings), m)
    /\ val' = Circuit_generateWitness(val, ringSettlements, publicDataBits, input')
    /\ UNCHANGED <<numRings, ringSettlements, publicDataBits, constraints>>

\* generateWitness called again on the same rings with one declared root
\* replaced
RegenerateWitness(root) ==
    /\ pc = "witness"
    /\ pc' = "witness again"
    /\ input' = [input EXCEPT ![root] = OtherRoot(@)]
    /\ val' = Circuit_generateWitness(val, ringSettlements, publicDataBits, input')
    /\ UNCHANGED <<numRings, ringSettlements, publicDataBits, constraints>>

\* the wires whose bits a prover may set on its own before it hashes
ProverWires == {tradingHistoryMerkleRootBefore, tradingHistoryMerkleRootAfter}

\* a prover that sets the bits of a declared root to the bits of another
\* root and then computes the hash and the public input as lines 783-799 do
ProverAssign(d) ==
    /\ pc = "witness"
    /\ pc' = "assigned"
    /\ val' = PublicDataHash_witness(
                  Assign(val, d.bits, OpaqueBits(OtherRoot(val[d.packed]), d.width)),
                  publicDataBits)
    /\ UNCHANGED <<numRings, ringSettlements, publicDataBits, constraints, input>>

\* what a prover may write over a satisfying witness: a value wider than its
\* bits to the walletF of the first order, or the opposite of one bit of the
\* public input
ProverWrites == {[kind |-> "walletF", i |-> 0]} \cup [kind : {"publicDataHash"}, i : 1..DigestBits]

\* the bits with bit i replaced by its opposite
FlipBit(bits, i) == [k \in 1..Len(bits) |-> IF k = i THEN 1 - bits[k] ELSE bits[k]]

\* a prover that holds a satisfying witness and writes one more wire (pb.val)
\* before it asks whether the constraints are satisfied
ProverWrite(w) ==
    /\ pc = "witness"
    /\ Satisfied
    /\ pc' = "written"
    /\ val' = IF w.kind = "walletF"
              THEN Assign(val, ringSettlements[1].orderA.walletF.packed, 2 ^ AccountBits)
              ELSE (publicDataHash.bits :> FlipBit(val[publicDataHash.bits], w.i))
                   @@ (publicDataHash.packed :> PackBits(FlipBit(val[publicDataHash.bits], w.i)))
                   @@ val
    /\ UNCHANGED <<numRings, ringSettlements, publicDataBits, constraints, input>>

Next ==
    \/ \E n \in 1..MaxRings : GenerateConstraints(n)
    \/ \E sc \in ScenariosOf(numRings), m \in Mutations(numRings) : GenerateWitness(sc, m)
    \/ \E root \in RootFields : RegenerateWitness(root)
    \/ \E d \in ProverWires : ProverAssign(d)
    \/ \E w \in ProverWrites : ProverWrite(w)

Spec == Init /\ [][Next]_vars

(***************************************************************************)
(* What the claims speak of.                                               *)
(***************************************************************************)
\* a witness has been assigned
Witnessed == pc \in {"witness", "witness again", "assigned", "written"}

\* a witness has been assigned and it satisfies every constraint
SatisfyingAssignment == Witnessed /\ Satisfied

\* the signature of an order verifies for its key and its eight fields
ValidSignature(order) ==
    order.sig.s = EdDSA_s(order.publicKey, order.sig.R, MessageOf(order))

\* the fields of an order fit their widths
OrderInRange(order) ==
    /\ order.dexID \in 0..(2 ^ DexBits - 1)
    /\ order.orderID \in 0..(2 ^ OrderIdBits - 1)
    /\ \A a \in {order.accountS, order.accountB, order.accountF} : a \in 0..(2 ^ AccountBits - 1)
    /\ \A a \in {order.amountS, order.amountB, order.amountF} : a \in 0..(2 ^ AmountBits - 1)

\* the root of the tree that a proof and the leaf at an address make up
RootOf(depth, proof, address, leaf) ==
    Root(depth, [a \in DOMAIN proof |-> IF a = address THEN leaf ELSE proof[a]])

\* the six balance updates of a settled ring, in the order they are applied:
\* account, owner, token, balance before, balance after, proof
BalanceUpdates(rs) ==
    LET A == rs.ring.orderA
        B == rs.ring.orderB
    IN  << [address |-> A.accountS, key |-> A.publicKey, token |-> A.tokenS, proof |-> rs.accountS_A_proof,
            before |-> rs.accountS_A_before.balance, after |-> rs.accountS_A_before.balance - rs.ring.fillS_A],
           [address |-> A.accountB, key |-> A.publicKey, token |-> A.tokenB, proof |-> rs.accountB_A_proof,
            before |-> rs.accountB_A_before.balance, after |-> rs.accountB_A_before.balance + rs.ring.fillS_B],
           [address |-> A.accountF, key |-> A.publicKey, token |-> A.tokenF, proof |-> rs.accountF_A_proof,
            before |-> rs.accountF_A_before.balance, after |-> rs.accountF_A_before.balance - rs.ring.fillF_A],
           [address |-> B.accountS, key |-> B.publicKey, token |-> B.tokenS, proof |-> rs.accountS_B_proof,
            before |-> rs.accountS_B_before.balance, after |-> rs.accountS_B_before.balance - rs.ring.fillS_B],
           [address |-> B.accountB, key |-> B.publicKey, token |-> B.tokenB, proof |-> rs.accountB_B_proof,
            before |-> rs.accountB_B_before.balance, after |-> rs.accountB_B_before.balance + rs.ring.fillS_A],
           [address |-> B.accountF, key |-> B.publicKey, token |-> B.tokenF, proof |-> rs.accountF_B_proof,
            before |-> rs.accountF_B_before.balance, after |-> rs.accountF_B_before.balance - rs.ring.fillF_B] >>

AccountsRootBefore(u) ==
    RootOf(TREE_DEPTH_ACCOUNTS, u.proof, u.address, AccountLeaf(u.key, u.token, u.before))

AccountsRootAfter(u) ==
    RootOf(TREE_DEPTH_ACCOUNTS, u.proof, u.address, AccountLeaf(u.key, u.token, u.after))

\* the roots a well-formed ring leaves behind
HistoryPostRoot(rs) ==
    RootOf(TREE_DEPTH_FILLED, rs.proofFilledB, HistoryAddress(rs.ring.orderB),
           <<rs.filledB + rs.ring.fillS_B, rs.filledB + rs.ring.fillS_B>>)

AccountsPostRoot(rs) == AccountsRootAfter(BalanceUpdates(rs)[6])

\* a ring an honest operator may settle on the trees with the given roots
WellFormedRing(rs, historyRoot, accountsRoot) ==
    LET A == rs.ring.orderA
        B == rs.ring.orderB
        r == rs.ring
        u == BalanceUpdates(rs)
    IN  /\ OrderInRange(A) /\ OrderInRange(B)
        /\ ValidSignature(A) /\ ValidSignature(B)
        /\ A.tokenS = B.tokenB /\ A.tokenB = B.tokenS
        /\ \A f \in FillFields : r[f] \in 0..(2 ^ AmountBits - 1)
        \* each order is filled at its own rate and pays its own fee rate
        /\ r.fillS_A * A.amountB = r.fillB_A * A.amountS
        /\ r.fillS_B * B.amountB = r.fillB_B * B.amountS
        /\ r.fillF_A * A.amountS = r.fillS_A * A.amountF
        /\ r.fillF_B * B.amountS = r.fillS_B * B.amountF
        \* fill caps and match feasibility
        /\ rs.filledA + r.fillS_A <= A.amountS
        /\ rs.filledB + r.fillS_B <= B.amountS
        /\ r.fillB_B <= r.fillS_A /\ r.fillB_A <= r.fillS_B
        \* balances: every balance stays within its width
        /\ \A i \in 1..6 : u[i].before \in 0..(2 ^ AmountBits - 1)
                           /\ u[i].after \in 0..(2 ^ AmountBits - 1)
        \* Merkle proofs: each update starts from the root the last one left
        /\ rs.tradingHistoryMerkleRoot = historyRoot
        /\ RootOf(TREE_DEPTH_FILLED, rs.proofFilledA, HistoryAddress(A),
                  <<rs.filledA, rs.filledA>>) = historyRoot
        /\ RootOf(TREE_DEPTH_FILLED, rs.proofFilledB, HistoryAddress(B),
                  <<rs.filledB, rs.filledB>>)
           = RootOf(TREE_DEPTH_FILLED, rs.proofFilledA, HistoryAddress(A),
                    <<rs.filledA + r.fillS_A, rs.filledA + r.fillS_A>>)
        /\ \A i \in 1..6 :
               AccountsRootBefore(u[i]) = IF i = 1 THEN accountsRoot ELSE AccountsRootAfter(u[i - 1])

\* a batch whose rings are well formed, each on the roots the ring before it
\* left, and whose declared roots are those of the first and the last ring
WellFormedBatch(batch) ==
    LET rs == batch.ringSettlements
    IN  /\ \A i \in 1..Len(rs) :
               WellFormedRing(rs[i],
                   IF i = 1 THEN batch.tradingHistoryMerkleRootBefore ELSE HistoryPostRoot(rs[i - 1]),
                   IF i = 1 THEN batch.accountsMerkleRootBefore ELSE AccountsPostRoot(rs[i - 1]))
        /\ batch.tradingHistoryMerkleRootAfter = HistoryPostRoot(rs[Len(rs)])
        /\ batch.accountsMerkleRootAfter = AccountsPostRoot(rs[Len(rs)])

(***************************************************************************)
(* C1.  Completeness: for every numRings >= 1 and every well-formed batch   *)
(* the witness that generateWitness assigns satisfies every constraint      *)
(* that generate_r1cs_constraints added; scenario S1 (FullFill) is          *)
(* satisfiable.                                                            *)
(***************************************************************************)
C1_Completeness ==
    (pc = "witness" /\ WellFormedBatch(input)) => Satisfied

\* the complete fill of S1 has been witnessed on a circuit of one ring
C1_FullFillWitnessed ==
    /\ pc = "witness"
    /\ numRings = 1
    /\ input = HonestBatch(FullFill, 1)
    /\ WellFormedBatch(input)

(***************************************************************************)
(* C2.  Price rate: in every satisfying assignment, for every ring and each *)
(* order X of it, fillS_X * amountB_X = fillB_X * amountS_X with the amounts *)
(* of that same order X.                                                    *)
(***************************************************************************)
OwnPriceRate(order, fillS, fillB) ==
    val[fillS.packed] * val[order.amountB.packed] = val[fillB.packed] * val[order.amountS.packed]

C2_PriceRate ==
    SatisfyingAssignment =>
        \A j \in 1..numRings :
            /\ OwnPriceRate(ringSettlements[j].orderA,
                            ringSettlements[j].fillS_A, ringSettlements[j].fillB_A)
            /\ OwnPriceRate(ringSettlements[j].orderB,
                            ringSettlements[j].fillS_B, ringSettlements[j].fillB_B)

\* a satisfying assignment in which order B sells 30 for 10
C2_OffRateSatisfied ==
    /\ SatisfyingAssignment
    /\ val[ringSettlements[1].orderB.amountS.packed] = 30
    /\ val[ringSettlements[1].orderB.amountB.packed] = 10
    /\ val[ringSettlements[1].fillS_B.packed] = 20
    /\ val[ringSettlements[1].fillB_B.packed] = 10

(***************************************************************************)
(* C3.  Fee rate: in every satisfying assignment, for every ring and each   *)
(* order X of it, fillF_X * amountS_X = fillS_X * amountF_X with the amounts *)
(* of that same order X.                                                    *)
(***************************************************************************)
OwnFeeRate(order, fillS, fillF) ==
    val[fillF.packed] * val[order.amountS.packed] = val[fillS.packed] * val[order.amountF.packed]

C3_FeeRate ==
    SatisfyingAssignment =>
        \A j \in 1..numRings :
            /\ OwnFeeRate(ringSettlements[j].orderA,
                          ringSettlements[j].fillS_A, ringSettlements[j].fillF_A)
            /\ OwnFeeRate(ringSettlements[j].orderB,
                          ringSettlements[j].fillS_B, ringSettlements[j].fillF_B)

\* a satisfying assignment in which order B offers a fee of 1 for 30 sold
\* and pays 2 for 20 sold
C3_OffFeeSatisfied ==
    /\ SatisfyingAssignment
    /\ val[ringSettlements[1].orderB.amountS.packed] = 30
    /\ val[ringSettlements[1].orderB.amountF.packed] = 1
    /\ val[ringSettlements[1].fillS_B.packed] = 20
    /\ val[ringSettlements[1].fillF_B.packed] = 2

(***************************************************************************)
(* C4.  Accounts root threading: the first ring's accounts pre-root is      *)
(* accountsMerkleRootBefore, and the accounts pre-root of every later ring  *)
(* is the accounts post-root that the balance updates of the ring before it *)
(* produce, not a trading-history root.                                     *)
(***************************************************************************)
\* the accounts roots a ring produces: the one it returns and the one of its
\* last balance update
AccountsPostRoots(ring) == {getNewAccountsMerkleRoot(ring), ring.updateBalanceF_B.result}

C4_AccountsThreading ==
    pc # "constructed" =>
        /\ ringSettlements[1].accountsMerkleRoot = accountsMerkleRootBefore.packed
        /\ \A j \in 1..(numRings - 1) :
               ringSettlements[j + 1].accountsMerkleRoot \in AccountsPostRoots(ringSettlements[j])

\* a circuit of two rings whose second ring takes its accounts pre-root from
\* the first ring's trading-history update
C4_SecondRingBuilt ==
    /\ pc = "constraints"
    /\ numRings >= 2
    /\ ringSettlements[2].accountsMerkleRoot = ringSettlements[1].updateFilledB.result

(***************************************************************************)
(* C5.  Soundness with respect to the declared roots: from a satisfying     *)
(* witness, replacing any one of the four declared roots and leaving the    *)
(* rest of the batch as it is gives a witness that does not satisfy the     *)
(* constraints.                                                            *)
(***************************************************************************)
C5_DeclaredRootsBound ==
    [][(pc = "witness" /\ Satisfied /\ pc' = "witness again") => ~Satisfied']_vars

\* a satisfying witness whose declared accounts post-root is not the root
\* the balance updates of the last ring leave
C5_AccountsRootReplaced ==
    /\ pc = "witness again"
    /\ Satisfied
    /\ input.accountsMerkleRootAfter # AccountsPostRoot(input.ringSettlements[numRings])

(***************************************************************************)
(* C6.  The public digest binds the trading-history roots: in every         *)
(* satisfying assignment the root-before bits and the root-after bits that   *)
(* are hashed are the bits of the value used as the first ring's             *)
(* trading-history pre-root and of the value constrained equal to the last   *)
(* ring's trading-history post-root.                                        *)
(***************************************************************************)
C6_DigestBindsRoots ==
    SatisfyingAssignment =>
        /\ publicDataBits[1] = tradingHistoryMerkleRootBefore.bits
        /\ publicDataBits[2] = tradingHistoryMerkleRootAfter.bits
        /\ val[publicDataBits[1]]
           = OpaqueBits(val[ringSettlements[1].tradingHistoryMerkleRoot], RootBits)
        /\ val[publicDataBits[2]]
           = OpaqueBits(val[getNewTradingHistoryMerkleRoot(ringSettlements[numRings])], RootBits)

\* a satisfying assignment in which the prover has hashed the bits of another
\* root in place of the post-root's
C6_OtherBitsHashed ==
    /\ pc = "assigned"
    /\ Satisfied
    /\ val[tradingHistoryMerkleRootAfter.bits]
       = OpaqueBits(OtherRoot(val[tradingHistoryMerkleRootAfter.packed]), RootBits)

(***************************************************************************)
(* C7.  Trading-history root threading: the first ring's pre-root is        *)
(* tradingHistoryMerkleRootBefore.packed; in each ring updateFilledA runs    *)
(* on the ring's pre-root and updateFilledB on updateFilledA's post-root;    *)
(* the pre-root of every later ring is updateFilledB's post-root of the      *)
(* ring before it.  In a satisfying assignment the two Merkle checks of a    *)
(* ring hold against those roots.                                           *)
(***************************************************************************)
C7_HistoryThreading ==
    /\ pc # "constructed" =>
        /\ ringSettlements[1].tradingHistoryMerkleRoot = tradingHistoryMerkleRootBefore.packed
        /\ \A j \in 1..numRings :
               /\ ringSettlements[j].updateFilledA.merkleRootBefore
                  = ringSettlements[j].tradingHistoryMerkleRoot
               /\ ringSettlements[j].updateFilledB.merkleRootBefore
                  = ringSettlements[j].updateFilledA.result
        /\ \A j \in 1..(numRings - 1) :
               ringSettlements[j + 1].tradingHistoryMerkleRoot
               = ringSettlements[j].updateFilledB.result
    /\ SatisfyingAssignment =>
        \A j \in 1..numRings :
            /\ UpdateFilled_rootBefore(val, ringSettlements[j].updateFilledA)
               = val[ringSettlements[j].tradingHistoryMerkleRoot]
            /\ UpdateFilled_rootBefore(val, ringSettlements[j].updateFilledB)
               = UpdateFilled_rootAfter(val, ringSettlements[j].updateFilledA)

\* a circuit of at least two rings has been built and given a witness
C7_ChainWitnessed ==
    /\ pc = "witness"
    /\ numRings >= 2
    /\ ringSettlements[2].tradingHistoryMerkleRoot = ringSettlements[1].updateFilledB.result

(***************************************************************************)
(* C8.  Closing constraint: every satisfying assignment has the last ring's *)
(* trading-history post-root equal to tradingHistoryMerkleRootAfter.packed;  *)
(* a declared tradingHistoryMerkleRootAfter that differs from the computed   *)
(* post-root of the last ring is not satisfiable.                           *)
(***************************************************************************)
C8_ClosingConstraint ==
    Witnessed =>
        /\ Satisfied =>
               val[getNewTradingHistoryMerkleRoot(ringSettlements[numRings])]
               = val[tradingHistoryMerkleRootAfter.packed]
        /\ input.tradingHistoryMerkleRootAfter
           # UpdateFilled_rootAfter(val, ringSettlements[numRings].updateFilledB) => ~Satisfied

\* a witness that fails only because the declared post-root is another root
C8_OtherRootRejected ==
    /\ pc = "witness"
    /\ ~Satisfied
    /\ input.tradingHistoryMerkleRootAfter = OtherRoot(HistoryPostRoot(input.ringSettlements[numRings]))
    /\ \A i \in DOMAIN constraints :
           ~Holds(val, constraints[i]) => constraints[i] = ClosingConstraint(ringSettlements)

(***************************************************************************)
(* C9.  Fill cap.  In every satisfying assignment, for every ring and each  *)
(* order X of it, the history leaf written at (orderID_X, accountS_X) holds  *)
(* filled_after, filled_after = filled_before + fillS_X and                  *)
(* filled_before + fillS_X <= amountS_X as integers.                        *)
(***************************************************************************)
\* the leaf that an update writes: the leaf at its address in its post-root
WrittenFilled(g) == val[g.result][3][AddressOf(UpdateFilled_address(val, g))]

FillCapped(g, order, fill) ==
    /\ WrittenFilled(g) = <<val[g.filledAfter], val[g.filledAfter]>>
    /\ val[g.filledAfter] = val[g.filledBefore] + val[fill.packed]
    /\ val[g.filledBefore] + val[fill.packed] <= val[order.amountS.packed]

WrittenBalance(g) == val[g.result][3][AddressOf(val[g.address])][4]

Debited(g, fill) ==
    /\ WrittenBalance(g) = (val[g.balanceBefore] - val[fill.packed]) % FieldP
    /\ WrittenBalance(g) \in 0..(2 ^ AmountBits - 1)
    /\ val[g.balanceBefore] >= val[fill.packed]

Credited(g, fill) ==
    /\ WrittenBalance(g) = (val[g.balanceBefore] + val[fill.packed]) % FieldP
    /\ WrittenBalance(g) \in 0..(2 ^ AmountBits - 1)

C10_AtomicTransfers ==
    SatisfyingAssignment =>
        \A j \in 1..numRings :
            LET ring == ringSettlements[j]
            IN  /\ Debited(ring.updateBalanceS_A, ring.fillS_A)
                /\ Credited(ring.updateBalanceB_B, ring.fillS_A)
                /\ Debited(ring.updateBalanceS_B, ring.fillS_B)
                /\ Credited(ring.updateBalanceB_A, ring.fillS_B)
                /\ Debited(ring.updateBalanceF_A, ring.fillF_A)
                /\ Debited(ring.updateBalanceF_B, ring.fillF_B)

\* a satisfying assignment that moves different amounts in the two directions
C10_TransfersSettled ==
    /\ SatisfyingAssignment
    /\ val[ringSettlements[1].fillS_A.packed] > 0
    /\ val[ringSettlements[1].fillS_B.packed] > val[ringSettlements[1].fillS_A.packed]
    /\ WrittenBalance(ringSettlements[1].updateBalanceB_B)
       = val[ringSettlements[1].balanceB_B_before] + val[ringSettlements[1].fillS_A.packed]

(***************************************************************************)
(* C11.  A balance update changes only the balance of the addressed leaf:   *)
(* in every satisfying assignment, for each of the six updates of a ring,   *)
(* the leaf (pub_x, pub_y, token, balanceBefore) is the leaf of the         *)
(* update's pre-root at the order's account address, the leaf of its        *)
(* post-root at that address is (pub_x, pub_y, token, balanceAfter), and     *)
(* every other leaf is the same under the two roots.                        *)
(***************************************************************************)
\* the six balance updates of a ring, each with the account it is addressed by
Ring_balanceUpdates(ring) ==
    << [g |-> ring.updateBalanceS_A, account |-> ring.orderA.accountS],
       [g |-> ring.updateBalanceB_A, account |-> ring.orderA.accountB],
       [g |-> ring.updateBalanceF_A, account |-> ring.orderA.accountF],
       [g |-> ring.updateBalanceS_B, account |-> ring.orderB.accountS],
       [g |-> ring.updateBalanceB_B, account |-> ring.orderB.accountB],
       [g |-> ring.updateBalanceF_B, account |-> ring.orderB.accountF] >>

\* the leaves under a root
LeavesOf(root) == root[3]

OnlyBalanceChanged(g, account) ==
    LET pre  == LeavesOf(val[g.merkleRootBefore])
        post == LeavesOf(val[g.result])
        at   == val[account.packed]
    IN  /\ g.address = account.bits
        /\ DOMAIN post = DOMAIN pre
        /\ pre[at] = <<val[g.publicKey.x], val[g.publicKey.y], val[g.token], val[g.balanceBefore]>>
        /\ post[at] = <<val[g.publicKey.x], val[g.publicKey.y], val[g.token], val[g.balanceAfter]>>
        /\ \A a \in DOMAIN pre : a # at => post[a] = pre[a]

C11_BalanceUpdateFrame ==
    SatisfyingAssignment =>
        \A j \in 1..numRings :
            \A k \in 1..6 :
                OnlyBalanceChanged(Ring_balanceUpdates(ringSettlements[j])[k].g,
                                   Ring_balanceUpdates(ringSettlements[j])[k].account)

\* a satisfying assignment whose first balance update lowers a balance and
\* leaves a funded leaf of another account where it was
C11_BalanceLowered ==
    /\ SatisfyingAssignment
    /\ val[ringSettlements[1].updateBalanceS_A.balanceAfter]
       < val[ringSettlements[1].updateBalanceS_A.balanceBefore]
    /\ \E a \in DOMAIN LeavesOf(val[ringSettlements[1].updateBalanceS_A.result]) :
           /\ a # val[ringSettlements[1].orderA.accountS.packed]
           /\ LeavesOf(val[ringSettlements[1].updateBalanceS_A.result])[a][4] > 0

(***************************************************************************)
(* C12.  Match feasibility: in every satisfying assignment, for every ring, *)
(* fillB_B <= fillS_A and fillB_A <= fillS_B as integers; a witness of a     *)
(* ring that breaks either inequality does not satisfy the constraints.     *)
(***************************************************************************)
MatchFeasible(ring) ==
    /\ val[ring.fillB_B.packed] <= val[ring.fillS_A.packed]
    /\ val[ring.fillB_A.packed] <= val[ring.fillS_B.packed]

C12_MatchFeasibility ==
    Witnessed =>
        /\ Satisfied => \A j \in 1..numRings : MatchFeasible(ringSettlements[j])
        /\ (\E j \in 1..numRings : ~MatchFeasible(ringSettlements[j])) => ~Satisfied

\* a witness in which order B buys more than order A sells and that fails
\* the constraints of matchLeqA and no other
C12_ShortRejected ==
    /\ pc = "witness"
    /\ val[ringSettlements[1].fillB_B.packed] > val[ringSettlements[1].fillS_A.packed]
    /\ ~Satisfied
    /\ \A i \in DOMAIN constraints :
           ~Holds(val, constraints[i]) =>
               constraints[i] = [kind |-> "leq", g |-> ringSettlements[1].matchLeqA]

\* a satisfying assignment in which order B buys less than order A sells
C12_MarginSettled ==
    /\ SatisfyingAssignment
    /\ val[ringSettlements[1].fillB_B.packed] < val[ringSettlements[1].fillS_A.packed]

(***************************************************************************)
(* C13.  Token symmetry: in every satisfying assignment, for every ring,    *)
(* orderA.tokenS = orderB.tokenB and orderA.tokenB = orderB.tokenS.         *)
(***************************************************************************)
TokensMatch(ring) ==
    /\ val[ring.orderA.tokenS] = val[ring.orderB.tokenB]
    /\ val[ring.orderA.tokenB] = val[ring.orderB.tokenS]

C13_TokenSymmetry ==
    SatisfyingAssignment => \A j \in 1..numRings : TokensMatch(ringSettlements[j])

\* a witness in which order B sells another token than order A buys, with
\* account leaves that hold those tokens, and that fails the second token
\* constraint and no other
C13_MismatchRejected ==
    /\ pc = "witness"
    /\ val[ringSettlements[1].orderA.tokenB] # val[ringSettlements[1].orderB.tokenS]
    /\ ~Satisfied
    /\ \A i \in DOMAIN constraints :
           ~Holds(val, constraints[i]) =>
               constraints[i] = Ring_tokenConstraints(ringSettlements[1])[2]

(***************************************************************************)
(* C14.  Range: in every satisfying assignment, every witness declared with *)
(* a bit width N (the order fields dexID, orderID, accountS/B/F,             *)
(* amountS/B/F and walletF; the six fills; publicDataHash; the four roots)   *)
(* has boolean bits whose base-2 combination is its packed value, so that    *)
(* 0 <= packed < 2^N.                                                       *)
(***************************************************************************)
\* the dual variables of an order that the claim lists
Order_duals(g) ==
    {g.dexID, g.orderID, g.accountS, g.accountB, g.accountF,
     g.amountS, g.amountB, g.amountF, g.walletF}

\* the dual variables of the circuit that the claim lists
DeclaredDuals ==
    {publicDataHash, tradingHistoryMerkleRootBefore, tradingHistoryMerkleRootAfter,
     accountsMerkleRootBefore, accountsMerkleRootAfter}
    \cup UNION {Order_duals(ringSettlements[j].orderA) \cup Order_duals(ringSettlements[j].orderB)
                \cup {ringSettlements[j].fillS_A, ringSettlements[j].fillB_A,
                      ringSettlements[j].fillF_A, ringSettlements[j].fillS_B,
                      ringSettlements[j].fillB_B, ringSettlements[j].fillF_B}
                : j \in 1..numRings}

\* the value a wire holds: a wire that was allocated and never written is zero
PackedOf(d) == IF d.packed \in DOMAIN val THEN val[d.packed] ELSE 0
BitsOf(d) == IF d.bits \in DOMAIN val THEN val[d.bits] ELSE [i \in 1..d.width |-> 0]

InRange(d) ==
    IF d.opaque
    THEN BitsOf(d) = OpaqueBits(PackedOf(d), d.width)
    ELSE /\ \A i \in 1..d.width : BitsOf(d)[i] \in {0, 1}
         /\ SumBits(BitsOf(d), 1) = PackedOf(d)
         /\ PackedOf(d) \in 0..(2 ^ d.width - 1)

C14_Range ==
    SatisfyingAssignment => \A d \in DeclaredDuals : InRange(d)

\* a satisfying assignment in which the walletF of an order holds a value
\* wider than its bits
C14_WalletOutOfRange ==
    /\ pc = "written"
    /\ Satisfied
    /\ PackedOf(ringSettlements[1].orderA.walletF) >= 2 ^ ringSettlements[1].orderA.walletF.width

(***************************************************************************)
(* C15.  Public-data wire format: for numRings = N the hashed bit stream is *)
(* tradingHistoryRootBefore, then tradingHistoryRootAfter, then for each     *)
(* ring in order the record of order A and the record of order B, a record   *)
(* being dexID, orderID, own accountS, the other order's accountB, own       *)
(* fillS, own accountF, own fillF; each field is emitted most significant    *)
(* bit first, the fields keep their order, and the stream has                *)
(* 2 * RootBits + 2 * RecordBits * N bits.                                   *)
(***************************************************************************)
\* the fields of the record of an order, with the order it is matched with
RecordFields(own, other, fillS, fillF) ==
    <<own.dexID, own.orderID, own.accountS, other.accountB, fillS, own.accountF, fillF>>

\* the fields of the stream of the first n rings, in order
RECURSIVE StreamFields(_)
StreamFields(n) ==
    IF n = 0 THEN <<tradingHistoryMerkleRootBefore, tradingHistoryMerkleRootAfter>>
    ELSE StreamFields(n - 1)
         \o RecordFields(ringSettlements[n].orderA, ringSettlements[n].orderB,
                         ringSettlements[n].fillS_A, ringSettlements[n].fillF_A)
         \o RecordFields(ringSettlements[n].orderB, ringSettlements[n].orderA,
                         ringSettlements[n].fillS_B, ringSettlements[n].fillF_B)

\* the bits of a field, most significant first
MsbFirst(d) == [i \in 1..d.width |-> val[d.bits][d.width + 1 - i]]

\* the bits of the first k fields, one field after the other
RECURSIVE StreamOf(_, _)
StreamOf(fields, k) ==
    IF k = 0 THEN <<>> ELSE StreamOf(fields, k - 1) \o MsbFirst(fields[k])

\* the bits of one record
RecordBits == DexBits + OrderIdBits + 3 * AccountBits + 2 * AmountBits

C15_WireFormat ==
    /\ pc # "constructed" =>
           publicDataBits = [k \in 1..(2 + 14 * numRings) |-> StreamFields(numRings)[k].bits]
    /\ SatisfyingAssignment =>
           /\ val[publicDataHasher_result].of
              = StreamOf(StreamFields(numRings), 2 + 14 * numRings)
           /\ Len(val[publicDataHasher_result].of)
              = 2 * RootBits + 2 * RecordBits * numRings

\* a satisfying assignment whose orders buy into different accounts and
\* whose stream holds a field that reads differently in the two bit orders
C15_StreamHashed ==
    /\ SatisfyingAssignment
    /\ val[ringSettlements[1].orderA.accountB.packed] # val[ringSettlements[1].orderB.accountB.packed]
    /\ MsbFirst(ringSettlements[1].fillS_B) # val[ringSettlements[1].fillS_B.bits]
    /\ val[publicDataHasher_result].of = PublicData(val, publicDataBits)

(***************************************************************************)
(* C16.  Within one ring the accounts root goes through six balance         *)
(* updates in the order S_A, B_A, F_A, S_B, B_B, F_B: the first takes the    *)
(* ring's accounts pre-root, each later one the post-root of the one before, *)
(* and the accounts post-root the ring exposes is the post-root of the last  *)
(* update, F_B, so that it reflects all six updates.                         *)
(***************************************************************************)
\* the six balance updates of a ring, in the order of the accounts thread
BalanceThread(ring) ==
    <<ring.updateBalanceS_A, ring.updateBalanceB_A, ring.updateBalanceF_A,
      ring.updateBalanceS_B, ring.updateBalanceB_B, ring.updateBalanceF_B>>

\* the first five links of the accounts thread of a ring
ThreadedToF_B(ring) ==
    /\ BalanceThread(ring)[1].merkleRootBefore = ring.accountsMerkleRoot
    /\ \A k \in 1..5 :
           BalanceThread(ring)[k + 1].merkleRootBefore = BalanceThread(ring)[k].result

C16_SixUpdatesThreaded ==
    /\ pc # "constructed" =>
           \A j \in 1..numRings :
               /\ ThreadedToF_B(ringSettlements[j])
               /\ getNewAccountsMerkleRoot(ringSettlements[j])
                  = ringSettlements[j].updateBalanceF_B.result
    /\ SatisfyingAssignment =>
           \A j \in 1..numRings :
               val[getNewAccountsMerkleRoot(ringSettlements[j])]
               = UpdateBalance_rootAfter(val, ringSettlements[j].updateBalanceF_B)

\* a satisfying assignment of a ring whose six updates are threaded in order
\* and whose last update, the fee of order B, changes the accounts root
C16_FeeOfBPaid ==
    /\ SatisfyingAssignment
    /\ ThreadedToF_B(ringSettlements[1])
    /\ val[ringSettlements[1].fillF_B.packed] > 0
    /\ val[ringSettlements[1].updateBalanceF_B.result]
       # val[ringSettlements[1].updateBalanceB_B.result]

(***************************************************************************)
(* C17.  Digest bit-order round trip: the circuit constrains digest bit      *)
(* DigestBits-1-i to equal publicDataHash bit i for every i; for every       *)
(* possible digest the bits generateWitness assigns to publicDataHash, bit i *)
(* of the integer read from the digest most significant bit first, satisfy   *)
(* all of those constraints; and a witness whose public-input bits differ    *)
(* from the digest in any position is unsatisfiable.                         *)
(***************************************************************************)
\* every digest the hasher can return
Digests == [1..DigestBits -> {0, 1}]

\* the constraint between the hasher's digest and the public input
DigestCheck == [kind |-> "publicData.check", digest |-> publicDataHasher_result, g |-> publicDataHash]

\* the positions in which the public input differs from the digest
DigestMismatches(v) ==
    {i \in 0..(DigestBits - 1) :
        v[publicDataHash.bits][i + 1] # v[publicDataHasher_result].bits[DigestBits - i]}

C17_DigestRoundTrip ==
    /\ pc # "constructed" => \E k \in DOMAIN constraints : constraints[k] = DigestCheck
    /\ \A d \in Digests :
           /\ Holds(PublicDataHash_assign(<<>>, [of |-> <<>>, bits |-> d]), DigestCheck)
           /\ DigestMismatches(PublicDataHash_assign(<<>>, [of |-> <<>>, bits |-> d])) = {}
    /\ Witnessed =>
           /\ Holds(val, DigestCheck) <=> DigestMismatches(val) = {}
           /\ DigestMismatches(val) # {} => ~Satisfied

\* an assignment whose public input differs from the digest in one position,
\* the digest reading differently in the two bit orders, and that fails the
\* digest check and no other constraint
C17_FlippedBitRejected ==
    /\ pc = "written"
    /\ Cardinality(DigestMismatches(val)) = 1
    /\ val[publicDataHasher_result].bits[1] # val[publicDataHasher_result].bits[DigestBits]
    /\ ~Satisfied
    /\ \A k \in DOMAIN constraints :
           ~Holds(val, constraints[k]) => constraints[k] = DigestCheck

====
